---- MODULE Spec2Model ----
(***************************************************************************)
(* Model of fscabc.sample (spotpy/algorithms/fscabc.py): the Fitness       *)
(* Scaled Chaotic Artificial Bee Colony search loop.                       *)
(*                                                                         *)
(* Representation of the floating point quantities:                        *)
(*   - the chaotic cursor r and every parameter value are fixed-point      *)
(*     numbers in units of 1/RDen; the parameter range [lb, ub] spans      *)
(*     exactly one unit interval, so lb + r*(ub-lb) is exact;              *)
(*   - scaled fitness values and the cumulative array bounds are exact     *)
(*     rationals <<numerator, denominator>> (SpecFloat rounds the scaled   *)
(*     fitness values to multiples of 1/RDen instead);                     *)
(*   - fitness values are integers in units of peps.                       *)
(* Python lists are 0-based, sequences here are 1-based: the bee at        *)
(* work[i] of the code is work[i+1] here, and the rank used by the         *)
(* fitness scaling is (index - 1).                                         *)
(* The parameter vectors are numpy arrays held by reference: arr is the    *)
(* heap of arrays, and the fields x and v of a bee are indices into it.    *)
(***************************************************************************)
EXTENDS Integers, Sequences, FiniteSets, TLC

(* ---------------------------------------------------------------- bounds *)
\* largest evaluation budget (repetitions) of a run
MaxRep == 5
\* number of parameters (self.nopt = randompar.size)
nopt == 2
\* largest population of the fitness-scaling specification
MaxBees == 4

(* ------------------------------------------------------ program constants *)
\* sample(..., a=(1/10), peps=0.0001, kpow=5, ...): the model runs with
\* a = 1 (so that the integer factors -1, 0, 1 are draws of U(-a, a)),
\* fitness in units of peps, and the default exponent.
a == 1
peps == 1
kpow == 5
\* gnrng = 1e100
gnrngInit == 1000000

(* ------------------------------------------------------------ input sets *)
\* fixed-point resolution of r and of the parameter values
RDen == 100 * 100
Dims == 1..nopt
\* self.parameter()['minbound'], ['maxbound']
lb == [g \in Dims |-> 0]
ub == [g \in Dims |-> RDen]
\* values of self.parameter()['random']: the two corners lb and ub
InitVals == {0, RDen}
InitVecs == {[g \in Dims |-> val] : val \in InitVals}
\* values returned by self.objectivefunction
FitVals == {-3, -2, -1}
\* integer draws of random.uniform(-a, a)
PhiVals == (0 - a)..a
\* draws of random.uniform(0, 1), as rationals
PnVals == {<<0, 1>>, <<1, 2>>, <<1, 1>>}
\* scripts of the uniform source random.random() during seed selection:
\* (0.25, 0.5, 0.7) for the runs, and for the seed selection on its own
\* every sequence of at most three degenerate draws followed by 0.7 or 0.125
SeedScripts == {<<2500, 5000, 7000>>}
DegenerateDraws == {2500, 5000, 7500}
SeedScriptsAll ==
    {pre \o <<good>> :
        pre \in {<<>>} \cup [1..1 -> DegenerateDraws] \cup [1..2 -> DegenerateDraws]
                      \cup [1..3 -> DegenerateDraws],
        good \in {7000, 1250}}
\* arguments of sample()
EbVals == {1, 2}
RepVals == {1, MaxRep}
\* (ownlimit, limit)
LimitArgs == {<<FALSE, 24>>, <<TRUE, 3>>}

VARIABLES pc, eb, repetitions, limit, src, draws, r, work, arr, i, q, rep,
          z, bounds, icall, gnrng, status, evals, maxFit, genFit, gen,
          evalAt, saved, since

vars == <<pc, eb, repetitions, limit, src, draws, r, work, arr, i, q, rep,
          z, bounds, icall, gnrng, status, evals, maxFit, genFit, gen,
          evalAt, saved, since>>

\* the arguments of sample() and the seed script never change
cfg == <<eb, repetitions, limit, src, draws>>

\* gen counts the generations started; evalAt[id] is the vector whose
\* evaluation produced the current fitness of the bee holding array id;
\* saved is the record handed to self.datawriter.save by the latest call;
\* since[id] is the generation of the last accepted candidate or reset of
\* the bee holding array id (0: its initialization)
hist == <<gen, evalAt, saved, since>>

(* --------------------------------------------------------------- helpers *)
Max(m, n) == IF m >= n THEN m ELSE n

\* fscabc.mutate: x = 4 * r * (1 - r), in units of 1/RDen; the product is
\* truncated to the resolution, as a float product is rounded to its own
\* (0.7 -> 0.84 -> 0.5376 and 0.125 -> 0.4375 are exact)
mutate(rr) == (4 * rr * (RDen - rr)) \div RDen

DegenerateNoHalf(rr) == rr = RDen \div 4 \/ rr = (3 * RDen) \div 4

\* r == 0.25 or r == 0.5 or r == 0.75
Degenerate(rr) == rr = RDen \div 4 \/ rr = RDen \div 2 \/ rr = (3 * RDen) \div 4

RecordTagNext(par, tag) == [par |-> par, chains |-> tag + 1]

\* self.datawriter.save(like, par, simulations=simulations, chains=tag):
\* the parameter values and the tag of the record (its fitness and its
\* simulation are not kept); the initialization saves without chains,
\* written as the tag -1
Record(par, tag) == [par |-> par, chains |-> tag]

\* self.status(rep, like, params): the best-so-far tracker
StatusInit == [objectivefunction |-> 0 - gnrngInit]
StatusCall(st, like) ==
    IF like > st.objectivefunction THEN [objectivefunction |-> like] ELSE st

(* ------------------------------------------------------------------ Init *)
InitFrom(scripts) ==
    /\ pc = "seed"
    /\ eb \in EbVals
    /\ repetitions \in RepVals
    /\ \E la \in LimitArgs : limit = IF la[1] = TRUE THEN la[2] ELSE eb
    /\ src \in scripts
    /\ draws = <<>>
    /\ r = RDen \div 4
    /\ work = <<>>
    /\ arr = <<>>
    /\ i = 0
    /\ q = 0
    /\ rep = 0
    /\ z = 0
    /\ bounds = <<>>
    /\ icall = 0
    /\ gnrng = gnrngInit
    /\ status = StatusInit
    /\ evals = 0
    /\ maxFit = 0 - gnrngInit
    /\ genFit = <<>>
    /\ gen = 0
    /\ evalAt = <<>>
    /\ saved = <<>>
    /\ since = <<>>

Init == InitFrom(SeedScripts)

(* --------------------------------------------------------- seed selection *)
\* while r == 0.25 or r == 0.5 or r == 0.75: r = random.random()
SeedDraw ==
    /\ pc = "seed"
    /\ Degenerate(r)
    /\ src # <<>>
    /\ r' = Head(src)
    /\ src' = Tail(src)
    /\ draws' = Append(draws, Head(src))
    /\ UNCHANGED <<pc, eb, repetitions, limit, work, arr, i, q, rep, z,
                   bounds, icall, gnrng, status, evals, maxFit, genFit, hist>>

SeedDone ==
    /\ pc = "seed"
    /\ ~Degenerate(r)
    /\ pc' = "init"
    /\ UNCHANGED <<cfg, r, work, arr, i, q, rep, z, bounds, icall, gnrng,
                   status, evals, maxFit, genFit, hist>>

(* -------------------------------------------------------- initialization *)
\* for rep, randompar, simulations in self.repeat(param_generator): one
\* fresh random vector per bee, evaluated, reported and appended to work
\* with x and v naming the same array
InitEval ==
    /\ pc = "init"
    /\ q < eb
    /\ \E randompar \in InitVecs, like \in FitVals :
         /\ arr' = Append(arr, randompar)
         /\ work' = Append(work, [fit_x |-> like, x |-> Len(arr) + 1,
                                  fit_v |-> like, v |-> Len(arr) + 1,
                                  c |-> 0, p |-> <<0, 1>>])
         /\ status' = StatusCall(status, like)
         /\ saved' = Record(randompar, -1)
         /\ evalAt' = Append(evalAt, randompar)
         /\ since' = Append(since, 0)
         /\ maxFit' = Max(maxFit, like)
    /\ evals' = evals + 1
    /\ rep' = q + 1
    /\ q' = q + 1
    /\ UNCHANGED <<pc, cfg, r, i, z, bounds, icall, gnrng, genFit, gen>>

\* the bee whose position is the array id, and the current fitness of each
BeeOf(id) == CHOOSE b \in {work[n] : n \in 1..Len(work)} : b.x = id
FitById == [id \in 1..Len(arr) |-> BeeOf(id).fit_x]

\* icall = 0; gnrng = 1e100
InitDone ==
    /\ pc = "init"
    /\ q = eb
    /\ icall' = 0
    /\ gnrng' = gnrngInit
    /\ genFit' = FitById
    /\ pc' = "loop"
    /\ UNCHANGED <<cfg, r, work, arr, i, q, rep, z, bounds, status, evals,
                   maxFit, hist>>

(* ------------------------------------------------------------- loop guard *)
LoopCondLate == icall <= repetitions /\ gnrng > peps

LoopCondGeq == icall < repetitions /\ gnrng >= peps

\* while icall < repetitions and gnrng > peps:
LoopCond == icall < repetitions /\ gnrng > peps

LoopEnter ==
    /\ pc = "loop"
    /\ LoopCond
    /\ pc' = "employedGen"
    /\ i' = 1
    /\ gen' = gen + 1
    /\ UNCHANGED <<cfg, r, work, arr, q, rep, z, bounds, icall, gnrng,
                   status, evals, maxFit, genFit, evalAt, saved, since>>

LoopExit ==
    /\ pc = "loop"
    /\ ~LoopCond
    /\ pc' = "done"
    /\ UNCHANGED <<cfg, r, work, arr, i, q, rep, z, bounds, icall, gnrng,
                   status, evals, maxFit, genFit, hist>>

(* ---------------------------------------------------------- employed phase *)
ClampLowOnly(j, val) == IF val < lb[j] THEN lb[j] ELSE val

\* if v < lb[j]: v = lb[j]; if v > ub[j]: v = ub[j]
Clamp(j, val) ==
    LET low == IF val < lb[j] THEN lb[j] ELSE val
    IN  IF low > ub[j] THEN ub[j] ELSE low

\* one iteration of "for i, val in enumerate(work)": a partner k != i (a
\* redraw that returns i leaves the state as it is), a dimension j, and
\* work[i][3][j] = work[i][1][j] + U(-a,a) * (work[i][1][j] - work[k][1][j])
EmployedGen ==
    /\ pc = "employedGen"
    /\ \E k \in (1..eb) \ {i}, j \in Dims, phi \in PhiVals :
         arr' = [arr EXCEPT ![work[i].v][j] =
                    Clamp(j, arr[work[i].x][j]
                             + phi * (arr[work[i].x][j] - arr[work[k].x][j]))]
    /\ IF i < eb
         THEN /\ i' = i + 1
              /\ UNCHANGED <<pc, q>>
         ELSE /\ pc' = "employedEval"
              /\ q' = 0
              /\ UNCHANGED i
    /\ UNCHANGED <<cfg, r, work, rep, z, bounds, icall, gnrng, status,
                   evals, maxFit, genFit, hist>>

ScoreKeepCount(w, rp, clike) ==
    IF clike > w[rp].fit_x
      THEN [w EXCEPT ![rp].x = w[rp].v, ![rp].fit_x = clike]
      ELSE [w EXCEPT ![rp].c = w[rp].c + 1]

ScoreAlways(w, rp, clike) ==
    [w EXCEPT ![rp].x = w[rp].v, ![rp].fit_x = clike, ![rp].c = 0]

\* if clike > work[rep][0]: accept, else work[rep][4] += 1
Score(w, rp, clike) ==
    IF clike > w[rp].fit_x
      THEN [w EXCEPT ![rp].x = w[rp].v, ![rp].fit_x = clike, ![rp].c = 0]
      ELSE [w EXCEPT ![rp].c = w[rp].c + 1]

\* one result of self.repeat(param_generator) for the employed batch
EmployedEval ==
    /\ pc = "employedEval"
    /\ q < eb
    /\ rep' = q + 1
    /\ \E clike \in FitVals :
         /\ work' = Score(work, rep', clike)
         /\ status' = StatusCall(status, work'[rep'].fit_x)
         /\ saved' = Record(arr[work'[rep'].v], icall)
         /\ evalAt' = IF clike > work[rep'].fit_x
                         THEN [evalAt EXCEPT ![work[rep'].v] = arr[work[rep'].v]]
                         ELSE evalAt
         /\ since' = IF clike > work[rep'].fit_x
                        THEN [since EXCEPT ![work[rep'].v] = gen]
                        ELSE since
         /\ maxFit' = Max(maxFit, clike)
    /\ evals' = evals + 1
    /\ icall' = icall + 1
    /\ q' = q + 1
    /\ pc' = IF q' = eb THEN "scale" ELSE pc
    /\ UNCHANGED <<cfg, r, arr, i, z, bounds, gnrng, genFit, gen>>

(* --------------------------------------------------------- fitness scaling *)
\* work.sort(key=lambda item: item[0]): stable, ascending
RECURSIVE InsertSorted(_, _)
InsertSorted(b, s) ==
    IF s = <<>> THEN <<b>>
    ELSE IF b.fit_x < Head(s).fit_x THEN <<b>> \o s
    ELSE <<Head(s)>> \o InsertSorted(b, Tail(s))

RECURSIVE SortByFit(_)
SortByFit(w) ==
    IF w = <<>> THEN <<>>
    ELSE InsertSorted(w[Len(w)], SortByFit(SubSeq(w, 1, Len(w) - 1)))

\* rationals <<numerator, denominator>>
RatAdd(m, n) ==
    IF m[2] = n[2] THEN <<m[1] + n[1], m[2]>>
    ELSE <<m[1] * n[2] + n[1] * m[2], m[2] * n[2]>>
RatGeq(m, n) == m[1] * n[2] >= n[1] * m[2]

\* work[i][5] = i**kpow  (i is the 0-based rank)
RawScore(n) == (n - 1) ^ kpow

\* csum = work[i][5] + csum
RECURSIVE CSum(_)
CSum(n) == IF n = 0 THEN 0 ELSE RawScore(n) + CSum(n - 1)

ScaledRankFromOne(w) ==
    [n \in 1..Len(w) |-> [w[n] EXCEPT !.p = <<n ^ kpow, CSum(Len(w))>>]]

\* work[i][5] = work[i][5] / csum
Scaled(w) == [n \in 1..Len(w) |-> [w[n] EXCEPT !.p = <<RawScore(n), CSum(Len(w))>>]]

\* bounds = np.cumsum(bn)
RECURSIVE CumSum(_, _)
CumSum(w, n) ==
    IF n = 1 THEN <<w[1].p>>
    ELSE LET prev == CumSum(w, n - 1)
         IN  Append(prev, RatAdd(prev[n - 1], w[n].p))

ScalingBudgetStop ==
    /\ pc = "scale"
    /\ IF icall >= repetitions
         THEN pc' = "done" /\ UNCHANGED <<work, bounds, i>>
         ELSE /\ work' = Scaled(SortByFit(work))
              /\ bounds' = CumSum(work', eb)
              /\ pc' = "onlookerGen"
              /\ i' = 1
    /\ UNCHANGED <<cfg, r, arr, q, rep, z, icall, gnrng, status, evals,
                   maxFit, genFit, hist>>

\* csum = 0 makes the division raise ZeroDivisionError and the run abort
FitnessScaling ==
    /\ pc = "scale"
    /\ CSum(eb) # 0
    /\ work' = Scaled(SortByFit(work))
    /\ bounds' = CumSum(work', eb)
    /\ pc' = "onlookerGen"
    /\ i' = 1
    /\ UNCHANGED <<cfg, r, arr, q, rep, z, icall, gnrng, status, evals,
                   maxFit, genFit, hist>>

(* ---------------------------------------------------------- onlooker phase *)
\* for t, vol in enumerate(bounds): if bounds[t] - pn >= 0: z = t; break
\* (z keeps its previous value when no entry of bounds reaches pn)
Roulette(bnd, pn, zold) ==
    LET hits == {t \in 1..Len(bnd) : RatGeq(bnd[t], pn)}
    IN  IF hits = {} THEN zold
        ELSE CHOOSE t \in hits : \A u \in hits : t <= u

\* one iteration of "for i, val in enumerate(work)":
\* work[i][3][j] = work[z][1][j] + U(-a,a) * (work[z][1][j] - work[k][1][j])
\* (z = 0 stands for the unbound name z: reading it raises NameError and
\* the run aborts)
OnlookerGen ==
    /\ pc = "onlookerGen"
    /\ \E pn \in PnVals, k \in (1..eb) \ {i}, j \in Dims, phi \in PhiVals :
         /\ z' = Roulette(bounds, pn, z)
         /\ z' # 0
         /\ arr' = [arr EXCEPT ![work[i].v][j] =
                      Clamp(j, arr[work[z'].x][j]
                               + phi * (arr[work[z'].x][j] - arr[work[k].x][j]))]
    /\ IF i < eb
         THEN /\ i' = i + 1
              /\ UNCHANGED <<pc, q>>
         ELSE /\ pc' = "onlookerEval"
              /\ q' = 0
              /\ UNCHANGED i
    /\ UNCHANGED <<cfg, r, work, rep, bounds, icall, gnrng, status, evals,
                   maxFit, genFit, hist>>

\* one result of self.repeat(param_generator) for the onlooker batch
OnlookerEval ==
    /\ pc = "onlookerEval"
    /\ q < eb
    /\ rep' = q + 1
    /\ \E clike \in FitVals :
         /\ work' = Score(work, rep', clike)
         /\ status' = StatusCall(status, work'[rep'].fit_x)
         /\ saved' = Record(arr[work'[rep'].v], icall)
         /\ evalAt' = IF clike > work[rep'].fit_x
                         THEN [evalAt EXCEPT ![work[rep'].v] = arr[work[rep'].v]]
                         ELSE evalAt
         /\ since' = IF clike > work[rep'].fit_x
                        THEN [since EXCEPT ![work[rep'].v] = gen]
                        ELSE since
         /\ maxFit' = Max(maxFit, clike)
    /\ evals' = evals + 1
    /\ icall' = icall + 1
    /\ q' = q + 1
    /\ IF q' = eb
         THEN pc' = "scout" /\ i' = 1
         ELSE UNCHANGED <<pc, i>>
    /\ UNCHANGED <<cfg, r, arr, z, bounds, gnrng, genFit, gen>>

(* ------------------------------------------------------------ scout phase *)
\* the values r takes in "for g, bound in enumerate(ub): r = self.mutate(r)"
RECURSIVE ChaosSeq(_, _)
ChaosSeq(rr, n) ==
    IF n = 0 THEN <<>> ELSE <<mutate(rr)>> \o ChaosSeq(mutate(rr), n - 1)

ScoutVecOneDraw(rr) ==
    [g \in Dims |-> lb[g] + (mutate(rr) * (ub[g] - lb[g])) \div RDen]

\* work[i][1][g] = lb[g] + r * (ub[g] - lb[g]) for the successive r
ScoutVec(rr) ==
    [g \in Dims |-> lb[g] + (ChaosSeq(rr, nopt)[g] * (ub[g] - lb[g])) \div RDen]

ScoutStepAppend ==
    /\ pc = "scout"
    /\ IF work[i].c >= limit
         THEN /\ r' = ChaosSeq(r, nopt)[nopt]
              /\ arr' = Append(arr, ScoutVec(r))
              /\ evalAt' = Append(evalAt, ScoutVec(r))
              /\ since' = Append(since, gen)
              /\ saved' = Record(arr'[work[rep].v], icall)
              /\ \E clike \in FitVals :
                   /\ work' = Append(work, [work[i] EXCEPT !.c = 0,
                                     !.fit_x = clike, !.x = Len(arr) + 1,
                                     !.v = Len(arr) + 1])
                   /\ maxFit' = Max(maxFit, clike)
              /\ evals' = evals + 1
              /\ icall' = icall + 1
         ELSE UNCHANGED <<r, arr, work, maxFit, evals, icall, evalAt, saved,
                          since>>
    /\ IF i < eb
         THEN i' = i + 1 /\ UNCHANGED pc
         ELSE pc' = "check" /\ UNCHANGED i
    /\ UNCHANGED <<cfg, q, rep, z, bounds, gnrng, status, genFit, gen>>

\* one iteration of "for i, val in enumerate(work)" of the scout phase;
\* the last one is followed by gnrng = -self.status.objectivefunction
ScoutStep ==
    /\ pc = "scout"
    /\ IF work[i].c >= limit
         THEN /\ r' = ChaosSeq(r, nopt)[nopt]
              /\ arr' = [arr EXCEPT ![work[i].x] = ScoutVec(r)]
              /\ evalAt' = [evalAt EXCEPT ![work[i].x] = ScoutVec(r)]
              /\ since' = [since EXCEPT ![work[i].x] = gen]
              /\ saved' = Record(arr'[work[rep].v], icall)
              /\ \E clike \in FitVals :
                   /\ work' = [work EXCEPT ![i].c = 0, ![i].fit_x = clike]
                   /\ maxFit' = Max(maxFit, clike)
              /\ evals' = evals + 1
              /\ icall' = icall + 1
         ELSE UNCHANGED <<r, arr, work, maxFit, evals, icall, evalAt, saved,
                          since>>
    /\ IF i < eb
         THEN i' = i + 1 /\ UNCHANGED pc
         ELSE pc' = "check" /\ UNCHANGED i
    /\ UNCHANGED <<cfg, q, rep, z, bounds, gnrng, status, genFit, gen>>

ConvergenceCheckResetIcall ==
    /\ pc = "check"
    /\ gnrng' = 0 - status.objectivefunction
    /\ genFit' = FitById
    /\ icall' = 0
    /\ pc' = "loop"
    /\ UNCHANGED <<cfg, r, work, arr, i, q, rep, z, bounds, status,
                   evals, maxFit, hist>>

\* gnrng = -self.status.objectivefunction, end of the generation
ConvergenceCheck ==
    /\ pc = "check"
    /\ gnrng' = 0 - status.objectivefunction
    /\ genFit' = FitById
    /\ pc' = "loop"
    /\ UNCHANGED <<cfg, r, work, arr, i, q, rep, z, bounds, icall, status,
                   evals, maxFit, hist>>

Next ==
    \/ SeedDraw
    \/ SeedDone
    \/ InitEval
    \/ InitDone
    \/ LoopEnter
    \/ LoopExit
    \/ EmployedGen
    \/ EmployedEval
    \/ FitnessScaling
    \/ OnlookerGen
    \/ OnlookerEval
    \/ ScoutStep
    \/ ConvergenceCheck

Spec == Init /\ [][Next]_vars

(* ------------------------------------------------------ the run under way *)
\* sample() runs in one thread and every call it makes returns, so a step
\* that can be taken is taken.  A partner draw with k == i (lines 149-150,
\* 195-196) leaves the state as it is; fairness of the draws excludes
\* repeating it for ever.
InitFair ==
    /\ Init
    /\ eb >= 2
    /\ repetitions = MaxRep
    /\ \E la \in LimitArgs : la[1] = TRUE /\ limit = la[2]

SpecFair == InitFair /\ [][Next]_vars /\ WF_vars(Next)

(* -------------------------------------------- seed selection on its own *)
InitSeed == InitFrom(SeedScriptsAll)

SpecSeed == InitSeed /\ [][SeedDraw \/ SeedDone]_vars

(* ------------------------------------------- fitness scaling on its own *)
\* Populations of 2..MaxBees bees as they stand when the first employed
\* phase has rejected every candidate, followed by the fitness scaling.
InitScale ==
    /\ pc = "scale"
    /\ eb \in 2..MaxBees
    /\ repetitions = MaxRep
    /\ limit = eb
    /\ src = <<>>
    /\ draws = <<7000>>
    /\ r = 7000
    /\ \E f \in [1..eb -> FitVals] :
         /\ work = [n \in 1..eb |-> [fit_x |-> f[n], x |-> n, fit_v |-> f[n],
                                     v |-> n, c |-> 1, p |-> <<0, 1>>]]
         /\ genFit = f
         /\ \E n \in 1..eb :
              /\ \A m \in 1..eb : f[n] >= f[m]
              /\ status = [objectivefunction |-> f[n]]
              /\ maxFit = f[n]
    /\ arr = [n \in 1..eb |-> [g \in Dims |-> lb[g]]]
    /\ i = eb
    /\ q = eb
    /\ rep = eb
    /\ z = 0
    /\ bounds = <<>>
    /\ icall = eb
    /\ gnrng = gnrngInit
    /\ evals = 2 * eb
    /\ gen = 1
    /\ evalAt = arr
    /\ since = [n \in 1..eb |-> 0]
    /\ saved = Record(arr[eb], eb - 1)

SpecScale == InitScale /\ [][FitnessScaling]_vars

(* ------------------------- fitness scaling in finite-precision arithmetic *)
\* work[i][5] = work[i][5] / csum as a float division: the quotient is
\* rounded to the nearest representable value, here the nearest multiple
\* of 1/RDen; np.cumsum then adds the rounded quotients
ScaledFl(w) ==
    [n \in 1..Len(w) |->
        [w[n] EXCEPT !.p = <<(2 * RawScore(n) * RDen + CSum(Len(w)))
                               \div (2 * CSum(Len(w))), RDen>>]]

FitnessScalingFl ==
    /\ pc = "scale"
    /\ CSum(eb) # 0
    /\ work' = ScaledFl(SortByFit(work))
    /\ bounds' = CumSum(work', eb)
    /\ pc' = "onlookerGen"
    /\ i' = 1
    /\ UNCHANGED <<cfg, r, arr, q, rep, z, icall, gnrng, status, evals,
                   maxFit, genFit, hist>>

\* draws of random.uniform(0, 1) = random.random(), up to the largest
\* value below 1, which lies half a quotient spacing under 1
PnValsFl == {<<0, 1>>, <<1, 2>>, <<2 * RDen - 1, 2 * RDen>>}

OnlookerGenFl ==
    /\ pc = "onlookerGen"
    /\ \E pn \in PnValsFl, k \in (1..eb) \ {i}, j \in Dims, phi \in PhiVals :
         /\ z' = Roulette(bounds, pn, z)
         /\ z' # 0
         /\ arr' = [arr EXCEPT ![work[i].v][j] =
                      Clamp(j, arr[work[z'].x][j]
                               + phi * (arr[work[z'].x][j] - arr[work[k].x][j]))]
    /\ IF i < eb
         THEN /\ i' = i + 1
              /\ UNCHANGED <<pc, q>>
         ELSE /\ pc' = "onlookerEval"
              /\ q' = 0
              /\ UNCHANGED i
    /\ UNCHANGED <<cfg, r, work, rep, bounds, icall, gnrng, status, evals,
                   maxFit, genFit, hist>>

SpecFloat == InitScale /\ [][FitnessScalingFl \/ OnlookerGenFl]_vars

(***************************************************************************)
(* Properties                                                              *)
(***************************************************************************)
Bees == 1..Len(work)

\* C1: at every point of the run after initialization, icall equals the
\* number of evaluations issued to the Evaluation Gateway so far, the eb
\* initialization evaluations included.
C1_IcallCountsAllEvaluations ==
    pc \notin {"seed", "init"} => icall = evals

\* C2: when sample() has left its generation loop, icall >= repetitions or
\* the convergence measure gnrng is strictly less than peps.
C2_ExitBudgetOrConverged ==
    pc = "done" => (icall >= repetitions \/ gnrng < peps)

\* C3: for eb >= 2 and repetitions >= 1, no generation is started with
\* icall >= repetitions, and icall never exceeds repetitions - 1 + 3*eb.
C3_OvershootBounded ==
    (eb >= 2 /\ repetitions >= 1) =>
        /\ icall <= repetitions - 1 + 3 * eb
        /\ (pc = "employedGen" => icall < repetitions)

C3_Witness ==
    pc = "done" /\ eb >= 2 /\ repetitions >= 1
                /\ icall = repetitions - 1 + 3 * eb

\* C4: every coordinate g of every bee's current position lies in
\* [lowerBound[g], upperBound[g]], after any sequence of phases.
C4_PositionsInBounds ==
    \A n \in Bees : \A g \in Dims :
        lb[g] <= arr[work[n].x][g] /\ arr[work[n].x][g] <= ub[g]

\* a generation boundary after a scout regeneration and after a clamped
\* neighbourhood move
C4_Witness ==
    /\ pc = "loop"
    /\ icall > 0
    /\ \E n \in Bees : arr[work[n].x][1] \notin InitVals
    /\ \E n \in Bees : \E g \in Dims : arr[work[n].x][g] = ub[g]

\* C5 (as stated): at the end of a generation no bee has a currentFitness
\* below the one it had at the end of the previous generation.
C5_FitnessNeverDecreases ==
    pc = "check" => \A n \in Bees : work[n].fit_x >= genFit[work[n].x]

\* C5 (amended): no step of the employed and onlooker phases or of the
\* fitness scaling lowers the currentFitness of any bee; only a scout
\* reset can.
C5_NoDecreaseOutsideScout ==
    [][(pc \notin {"seed", "init", "scout"}) =>
          \A id \in 1..Len(arr) : FitById'[id] >= FitById[id]]_vars

\* a bee improved by an accepted candidate
C5_Witness ==
    /\ pc \in {"employedEval", "scale", "onlookerEval"}
    /\ \E n \in Bees : work[n].fit_x > genFit[work[n].x] /\ work[n].c = 0

\* C6: when the run ends, the best fitness held by the status tracker is
\* the maximum fitness over all evaluations of the run.
C6_BestIsMaxOfAllEvaluations ==
    pc = "done" => status.objectivefunction = maxFit

RECURSIVE RatSum(_, _)
RatSum(w, n) == IF n = 0 THEN <<0, 1>> ELSE RatAdd(RatSum(w, n - 1), w[n].p)
RatIsOne(m) == m[2] # 0 /\ m[1] = m[2]

RECURSIVE Iterate(_, _)
Iterate(rr, n) ==
    IF n = 0 THEN rr ELSE (4 * Iterate(rr, n - 1) * (RDen - Iterate(rr, n - 1))) \div RDen

\* C8: a scout step on a bee with stagnationCount >= limit leaves it with
\* stagnationCount 0 and coordinate g at lb[g] + r_g*(ub[g]-lb[g]), r_g the
\* g-th successor of the cursor r; every other bee, and a bee below the
\* limit, is left as it was.
C8_ScoutReset ==
    [][pc = "scout" =>
         /\ \A n \in Bees \ {i} :
               work'[n] = work[n] /\ arr'[work[n].x] = arr[work[n].x]
         /\ IF work[i].c >= limit
              THEN /\ work'[i].c = 0
                   /\ work'[i].x = work[i].x
                   /\ \A g \in Dims :
                         arr'[work[i].x][g] * RDen =
                            lb[g] * RDen + Iterate(r, g) * (ub[g] - lb[g])
                   /\ r' = Iterate(r, nopt)
              ELSE /\ work'[i] = work[i]
                   /\ arr'[work[i].x] = arr[work[i].x]
                   /\ r' = r]_vars

\* a bee just reset: its position is made of two different chaotic values
C8_Witness ==
    /\ pc \in {"scout", "check"}
    /\ \E n \in Bees :
         /\ work[n].c = 0
         /\ arr[work[n].x][nopt] = lb[nopt] + (r * (ub[nopt] - lb[nopt])) \div RDen
         /\ arr[work[n].x][1] # arr[work[n].x][nopt]
         /\ arr[work[n].x][1] \notin InitVals

\* C9: the cursor chosen by seed selection is none of 0.25, 0.5, 0.75, and
\* a source emitting 0.25, 0.5, 0.7 is drawn from three times (two
\* retries) and leaves r = 0.7.
C9_SeedNotDegenerate ==
    pc = "init" =>
        /\ r \notin {2500, 5000, 7500}
        /\ (draws \o src = <<2500, 5000, 7000>> =>
               r = 7000 /\ Len(draws) - 1 = 2 /\ src = <<>>)

C9_Witness ==
    pc = "init" /\ draws = <<2500, 5000, 7000>> /\ r = 7000

\* C10: a run with eb <= 1 or repetitions < eb issues no evaluation.
C10_InvalidConfigFailsFast ==
    (eb <= 1 \/ repetitions < eb) => evals = 0

\* C11: at every generation boundary the currentFitness of each bee is the
\* fitness obtained by evaluating its currentPosition.
C11_FitnessMatchesPosition ==
    pc = "loop" => \A n \in Bees : evalAt[work[n].x] = arr[work[n].x]

\* C12: the record saved for a scout reset of bee i carries the
\* regenerated position of bee i, the vector evaluated in that step.
C12_ScoutRecordIsResetBee ==
    [][(pc = "scout" /\ work[i].c >= limit) =>
          saved'.par = arr'[work[i].x]]_vars

\* C13 (as stated): a bee is reset only limit generations or more after
\* its last accepted candidate or reset.
C13_ResetAfterLimitGenerations ==
    (pc = "scout" /\ work[i].c >= limit) => gen - since[work[i].x] >= limit

\* C13 (amended): stagnationCount counts rejected candidates, at most two
\* per generation and never more than 2*(generations since the last
\* accepted candidate or reset) + 1; a bee is reset only once the count
\* has reached limit, hence limit \div 2 generations or more after its
\* last accepted candidate or reset.
C13_ResetAfterLimitRejections ==
    (pc \notin {"seed", "init"}) =>
        /\ \A n \in Bees : work[n].c <= 2 * (gen - since[work[n].x]) + 1
        /\ (pc = "scout" /\ work[i].c >= limit) =>
              gen - since[work[i].x] >= limit \div 2

\* a bee about to be reset one generation after its last accepted
\* candidate, three rejections later
C13_Witness ==
    /\ pc = "scout"
    /\ limit = 3
    /\ work[i].c = 3
    /\ since[work[i].x] = 1
    /\ gen = 2

\* C14: candidate generation in the employed phase never writes the
\* currentPosition of any bee.
C14_GenerationKeepsPositions ==
    [][pc = "employedGen" =>
          \A n \in Bees : arr'[work[n].x] = arr[work[n].x]]_vars

PhaseOrder ==
    {<<"loop", "employedGen">>, <<"employedGen", "employedEval">>,
     <<"employedEval", "scale">>, <<"scale", "onlookerGen">>,
     <<"onlookerGen", "onlookerEval">>, <<"onlookerEval", "scout">>,
     <<"scout", "check">>, <<"check", "loop">>, <<"loop", "done">>}

\* C15: the phases follow each other in the fixed order, a phase is left
\* only when it has handled all eb bees, and the loop is left only from
\* the generation boundary.
C15_PhaseOrder ==
    [][(pc \notin {"seed", "init"} /\ pc' # pc) =>
          /\ <<pc, pc'>> \in PhaseOrder
          /\ (pc \in {"employedGen", "onlookerGen", "scout"} => i = eb)
          /\ (pc \in {"employedEval", "onlookerEval"} => q' = eb)
          /\ (pc = "check" => icall >= 2 * eb * gen)]_vars

C15_Witness ==
    pc = "done" /\ gen = 2

\* C16: every employed, onlooker and scout evaluation is saved in the step
\* that issues it, tagged with the value of icall, which is then
\* incremented by one; the tags are 0, 1, 2, ... without gap or duplicate.
C16_TagsFollowIcall ==
    [][(pc \notin {"seed", "init"}) =>
          /\ (evals' # evals =>
                 /\ evals' = evals + 1
                 /\ saved'.chains = icall
                 /\ icall' = icall + 1)
          /\ (evals' = evals => saved' = saved /\ icall' = icall)
          /\ (saved'.chains = icall' - 1 \/ (icall' = 0 /\ saved'.chains = -1))]_vars

\* the record of a scout reset that follows the 2*eb records of the first
\* generation
C16_Witness ==
    /\ pc = "check"
    /\ gen = 1
    /\ eb = 2
    /\ icall = 2 * eb + 1
    /\ saved.chains = 2 * eb

\* C17: in the onlooker phase, for every draw pn some index t of the
\* sorted population has bounds[t] >= pn, so that the guide index z is
\* always assigned by the roulette loop.
C17_RouletteIndexExists ==
    pc = "onlookerGen" =>
        \A pn \in PnValsFl :
            \E t \in 1..Len(bounds) : RatGeq(bounds[t], pn)

\* C18: with eb >= 2 the run eventually terminates; at the end of every
\* generation icall has grown by at least 2*eb per generation run.
C18_Terminates ==
    /\ [](pc = "check" => icall >= 2 * eb * gen)
    /\ ((eb >= 2) ~> (pc = "done"))

\* a run of two generations that has ended
C18_Witness ==
    /\ pc = "done"
    /\ eb >= 2
    /\ gen = 2
    /\ icall >= 4 * eb

\* C19: after initialization the population holds exactly eb bees, one
\* for each of the eb arrays created by the initialization.
C19_PopulationSize ==
    (pc \notin {"seed", "init"}) =>
        /\ Len(work) = eb
        /\ Len(arr) = eb
        /\ {work[n].x : n \in Bees} = 1..eb

\* a population re-ordered by the sort
C19_Witness ==
    /\ pc = "onlookerGen"
    /\ eb = 2
    /\ work[1].x = 2
    /\ work[2].x = 1

\* C20: when the tracker's best fitness b at the end of a generation has
\* -b <= peps, the loop is left although icall < repetitions; the first
\* generation is started whatever the initial population scored.
C20_ConvergedStops ==
    [][pc = "loop" =>
          /\ (gen >= 1 /\ 0 - status.objectivefunction <= peps => pc' = "done")
          /\ (gen = 0 /\ repetitions >= 1 => pc' = "employedGen")]_vars

C20_Witness ==
    /\ pc = "done"
    /\ gen = 1
    /\ icall < repetitions
    /\ status.objectivefunction = 0 - peps
====
